---- MODULE Spec2Model ----
(***************************************************************************)
(* Model of behavior_trends_analysis.py: the loader (import_data), the     *)
(* cleaner (filter_data) and the four aggregators (loyalty_customers,      *)
(* quarterly_revenue, high_demand_products, purchase_patterns), driven as  *)
(* the script's main block drives them, with the aggregators callable in   *)
(* any order and any number of times on the one cleaned DataFrame object.  *)
(*                                                                         *)
(* A DataFrame is [columns |-> sequence of labels, rows |-> sequence of    *)
(* rows], a row being a function from column label to value.  UnitPrice    *)
(* and the revenues are exact decimals counted in minor units; a mean is   *)
(* an exact fraction [num, den] in lowest terms.  An InvoiceDate is        *)
(* [year, month]; a quarterly Period is [year, quarter].                   *)
(***************************************************************************)
EXTENDS Integers, Sequences, FiniteSets, TLC

VARIABLES file, sortTie, pc, reads, error, df, cleaned_df, last

vars == <<file, sortTie, pc, reads, error, df, cleaned_df, last>>

(* ------------------------------ bounds --------------------------------- *)
MaxRawRows == 3      \* rows of the file, cleaning specification
MaxRows == 3         \* rows of the file, aggregator specifications
MaxMixedRows == 2    \* rows of the file, mixed specification
MaxPurchases == 2    \* largest min_purchases tried
MaxTopN == 2         \* largest top_n tried

(* --------------------------- value domains ----------------------------- *)
NaN == -1            \* a missing CustomerID

Alphabet == <<"A", "B", "C">>

LabelOrd(d) == CHOOSE i \in 1..Len(Alphabet) : Alphabet[i] = d

BaseColumns == <<"CustomerID", "Quantity", "UnitPrice", "Description", "InvoiceDate">>

Row(c, q, p, d, t) ==
  [CustomerID |-> c, Quantity |-> q, UnitPrice |-> p, Description |-> d, InvoiceDate |-> t]

Date(y, m) == [year |-> y, month |-> m]

RawRows ==
  { Row(c, 1, 1, "A", Date(2011, 1)) : c \in {NaN, 1, 2} }
    \cup { Row(1, qp[1], qp[2], "A", Date(2011, 1)) :
             qp \in {<<0, 1>>, <<-1, 1>>, <<1, 0>>, <<1, -1>>, <<0, 0>>, <<-1, -1>>} }

LoyaltyRows ==
  { Row(c, 1, 1, "A", Date(2011, 1)) : c \in {NaN, 1, 2, 3} }

RevenueRows ==
  { Row(1, qp[1], qp[2], "A", t) :
      qp \in {<<1, 2>>, <<2, 5>>},
      t \in {Date(2010, 12), Date(2011, 1), Date(2011, 3), Date(2011, 4)} }

DemandRows ==
  { Row(1, q, 1, d, Date(2011, 1)) : q \in {1, 2}, d \in {"A", "B"} }
    \cup { Row(1, 1, 1, "C", Date(2011, 1)) }

PatternRows ==
  { Row(1, qp[1], qp[2], d, Date(2011, 1)) :
      qp \in {<<1, 1>>, <<1, 4>>, <<2, 4>>}, d \in {"A", "B"} }

MixedRows ==
  { Row(c, c, 2, d, t) : c \in {1, 2}, d \in {"A", "B"},
                         t \in {Date(2011, 3), Date(2011, 4)} }

Tables(Rows, n) == UNION { [1..k -> Rows] : k \in 0..n }

FileNames ==
  { [stem |-> "Online Retail", ext |-> e] : e \in {".xlsx", ".csv", ".txt"} }

ReadErrors == {"FileNotFoundError", "ParserError"}

MinPurchasesArgs == -1..MaxPurchases

TopNArgs == -1..MaxTopN

(* ----------------------------- DataFrames ------------------------------ *)
DataFrame(cols, rows) == [columns |-> cols, rows |-> rows]

NoDF == DataFrame(<<>>, <<>>)

NoError == [type |-> "none", file |-> [stem |-> "", ext |-> ""], cause |-> ""]

NoCall == [op |-> "none", arg |-> 0, result |-> NoDF]

Range(s) == { s[i] : i \in DOMAIN s }

RECURSIVE SumCol(_, _)
SumCol(rows, col) ==
  IF rows = <<>> THEN 0 ELSE rows[1][col] + SumCol(Tail(rows), col)

RECURSIVE GCD(_, _)
GCD(a, b) == IF b = 0 THEN a ELSE GCD(b, a % b)

Frac(n, d) == [num |-> n \div GCD(n, d), den |-> d \div GCD(n, d)]

\* the aggregate 'sum' in place of 'mean'
MeanCol_sum(rows, col) == Frac(SumCol(rows, col), 1)

MeanCol(rows, col) == Frac(SumCol(rows, col), Len(rows))

\* df[col] = per-row values: the column is overwritten in place when it
\* exists and appended as the last column when it does not
SetColumn(d, col, vals) ==
  DataFrame(IF col \in Range(d.columns) THEN d.columns ELSE Append(d.columns, col),
            [i \in 1..Len(d.rows) |->
               [c \in (DOMAIN d.rows[i]) \cup {col} |->
                  IF c = col THEN vals[i] ELSE d.rows[i][c]]])

(* ------------------------------- loader -------------------------------- *)
endswith(f, e) == f.ext = e

\* ValueError(f"Error loading file {filename}: {e}")
LoadError(f, cause) == [type |-> "ValueError", file |-> f, cause |-> cause]

UnsupportedMsg == "Unsupported file format"

(* ------------------------------- cleaner ------------------------------- *)
dropna(d) == DataFrame(d.columns, SelectSeq(d.rows, LAMBDA r : r.CustomerID # NaN))

\* the mask with Quantity >= 0 in place of Quantity > 0
PositiveMask_ge(r) == r.Quantity >= 0 /\ r.UnitPrice > 0

PositiveMask(r) == r.Quantity > 0 /\ r.UnitPrice > 0

\* filter_data with dropna(inplace=True): the caller's table loses its rows
filter_data_inplace(d) ==
  LET d1 == dropna(d)
      d2 == DataFrame(d1.columns, SelectSeq(d1.rows, PositiveMask))
  IN  [df |-> d1, ret |-> d2]

\* the argument as the call leaves it, and the returned DataFrame
filter_data(d) ==
  LET d1 == dropna(d)
      d2 == DataFrame(d1.columns, SelectSeq(d1.rows, PositiveMask))
  IN  [df |-> d, ret |-> d2]

(* ----------------------------- aggregators ----------------------------- *)
GroupRows(d, col, k) == SelectSeq(d.rows, LAMBDA r : r[col] = k)

KeySet(d, col) == { d.rows[i][col] : i \in 1..Len(d.rows) }

PeriodOrd(q) == q.year * 4 + (q.quarter - 1)

\* the sort key of a group key of a column
KeyOrd(col, k) ==
  IF col = "Description" THEN LabelOrd(k)
  ELSE IF col = "Quarter" THEN PeriodOrd(k)
  ELSE k

\* the distinct values of a column, as the ascending sequence of keys
SortedKeys(S, col) ==
  [i \in 1..Cardinality(S) |->
     CHOOSE k \in S : Cardinality({j \in S : KeyOrd(col, j) < KeyOrd(col, k)}) + 1 = i]

\* groupby(col): one group per distinct key, groups in ascending key order
groupby(d, col) == SortedKeys(KeySet(d, col), col)

\* the threshold test with > in place of >=
Qualifies_gt(count, min_purchases) == count > min_purchases

Qualifies(count, min_purchases) == count >= min_purchases

loyalty_customers(d, min_purchases) ==
  LET keys == groupby(d, "CustomerID")
      customer_purchases ==
        [i \in 1..Len(keys) |->
           [CustomerID |-> keys[i],
            Purchase_Count |-> Len(GroupRows(d, "CustomerID", keys[i]))]]
      loyal == SelectSeq(customer_purchases, LAMBDA g : Qualifies(g.Purchase_Count, min_purchases))
  IN  [df |-> d, ret |-> DataFrame(<<"CustomerID", "Purchase_Count">>, loyal)]

\* the line total added to a Total column left by an earlier call
LineTotal_acc(r) ==
  IF "Total" \in DOMAIN r THEN r.Total + r.Quantity * r.UnitPrice
                          ELSE r.Quantity * r.UnitPrice

LineTotal(r) == r.Quantity * r.UnitPrice

\* the quarter as month // 3 + 1
to_period_Q_floor(t) == [year |-> t.year, quarter |-> (t.month \div 3) + 1]

to_period_Q(t) == [year |-> t.year, quarter |-> ((t.month - 1) \div 3) + 1]

RowQuarter(r) == to_period_Q(r.InvoiceDate)

quarterly_revenue(d) ==
  LET d1 == SetColumn(d, "Total", [i \in 1..Len(d.rows) |-> LineTotal(d.rows[i])])
      d2 == SetColumn(d1, "Quarter", [i \in 1..Len(d1.rows) |-> RowQuarter(d1.rows[i])])
      keys == groupby(d2, "Quarter")
      revenue ==
        [i \in 1..Len(keys) |->
           [Quarter |-> keys[i],
            Total_Revenue |-> SumCol(GroupRows(d2, "Quarter", keys[i]), "Total")]]
  IN  [df |-> d2, ret |-> DataFrame(<<"Quarter", "Total_Revenue">>, revenue)]

\* position of x in the sequence s, 0 when absent
IndexIn(s, x) == IF x \in Range(s) THEN CHOOSE i \in 1..Len(s) : s[i] = x ELSE 0

\* the sort with ascending=True
sort_values_asc(series, tie) ==
  LET n == Len(series)
      Before(a, b) ==
        \/ a.Quantity < b.Quantity
        \/ a.Quantity = b.Quantity /\ IndexIn(tie, a.Description) < IndexIn(tie, b.Description)
  IN  [p \in 1..n |->
         series[CHOOSE i \in 1..n :
                  Cardinality({j \in 1..n : Before(series[j], series[i])}) + 1 = p]]

\* sort_values(ascending=False) with the default, unstable, quicksort: the
\* values come out non-increasing; the order of equal values is whatever the
\* build's sort leaves, given by tie (a fixed order of the labels)
sort_values_desc(series, tie) ==
  LET n == Len(series)
      Before(a, b) ==
        \/ a.Quantity > b.Quantity
        \/ a.Quantity = b.Quantity /\ IndexIn(tie, a.Description) < IndexIn(tie, b.Description)
  IN  [p \in 1..n |->
         series[CHOOSE i \in 1..n :
                  Cardinality({j \in 1..n : Before(series[j], series[i])}) + 1 = p]]

\* head(n): the first n rows; for negative n all but the last -n rows
head(s, n) ==
  LET m == IF n >= 0 THEN (IF n < Len(s) THEN n ELSE Len(s))
                     ELSE (IF Len(s) + n > 0 THEN Len(s) + n ELSE 0)
  IN  SubSeq(s, 1, m)

high_demand_products(d, top_n, tie) ==
  LET keys == groupby(d, "Description")
      sums ==
        [i \in 1..Len(keys) |->
           [Description |-> keys[i],
            Quantity |-> SumCol(GroupRows(d, "Description", keys[i]), "Quantity")]]
      product_demand == sort_values_desc(sums, tie)
      top == head(product_demand, top_n)
  IN  [df |-> d,
       ret |-> DataFrame(<<"Description", "Total_Quantity_Sold">>,
                 [i \in 1..Len(top) |->
                    [Description |-> top[i].Description,
                     Total_Quantity_Sold |-> top[i].Quantity]])]

purchase_patterns(d) ==
  LET keys == groupby(d, "Description")
      patterns ==
        [i \in 1..Len(keys) |->
           LET g == GroupRows(d, "Description", keys[i])
           IN  [Description |-> keys[i],
                avg_quantity |-> MeanCol(g, "Quantity"),
                avg_unit_price |-> MeanCol(g, "UnitPrice")]]
  IN  [df |-> d, ret |-> DataFrame(<<"Description", "avg_quantity", "avg_unit_price">>, patterns)]

\* the orders in which a sort may leave the labels of S when they tie
Orderings(S) ==
  { s \in [1..Cardinality(S) -> S] : \A i, j \in DOMAIN s : s[i] = s[j] => i = j }

(* --------------------------- specification ----------------------------- *)
InitWith(Rows, n) ==
  /\ file \in Tables(Rows, n)
  /\ sortTie \in Orderings({ file[i].Description : i \in 1..Len(file) })
  /\ pc = "start"
  /\ reads = 0
  /\ error = NoError
  /\ df = NoDF
  /\ cleaned_df = NoDF
  /\ last = NoCall

Init == InitWith(RawRows, MaxRawRows)

ImportOk ==
  /\ pc = "start"
  /\ \E f \in FileNames :
       /\ endswith(f, ".xlsx") \/ endswith(f, ".csv")
       /\ reads' = reads + 1
       /\ df' = DataFrame(BaseColumns, file)
       /\ pc' = "loaded"
  /\ UNCHANGED <<file, sortTie, error, cleaned_df, last>>

ImportReadFails ==
  /\ pc = "start"
  /\ \E f \in FileNames, cause \in ReadErrors :
       /\ endswith(f, ".xlsx") \/ endswith(f, ".csv")
       /\ reads' = reads + 1
       /\ error' = LoadError(f, cause)
       /\ pc' = "failed"
  /\ UNCHANGED <<file, sortTie, df, cleaned_df, last>>

ImportUnsupported ==
  /\ pc = "start"
  /\ \E f \in FileNames :
       /\ ~(endswith(f, ".xlsx") \/ endswith(f, ".csv"))
       /\ error' = LoadError(f, UnsupportedMsg)
       /\ pc' = "failed"
  /\ UNCHANGED <<file, sortTie, reads, df, cleaned_df, last>>

FilterData ==
  /\ pc = "loaded"
  /\ LET r == filter_data(df)
     IN  /\ df' = r.df
         /\ cleaned_df' = r.ret
  /\ pc' = "cleaned"
  /\ UNCHANGED <<file, sortTie, reads, error, last>>

Refilter ==
  /\ pc = "cleaned"
  /\ LET r == filter_data(cleaned_df)
     IN  /\ cleaned_df' = r.df
         /\ last' = [op |-> "filter_data", arg |-> 0, result |-> r.ret]
  /\ UNCHANGED <<file, sortTie, pc, reads, error, df>>

LoyaltyCustomers ==
  /\ pc = "cleaned"
  /\ \E m \in MinPurchasesArgs :
       LET r == loyalty_customers(cleaned_df, m)
       IN  /\ cleaned_df' = r.df
           /\ last' = [op |-> "loyalty_customers", arg |-> m, result |-> r.ret]
  /\ UNCHANGED <<file, sortTie, pc, reads, error, df>>

QuarterlyRevenue ==
  /\ pc = "cleaned"
  /\ LET r == quarterly_revenue(cleaned_df)
     IN  /\ cleaned_df' = r.df
         /\ last' = [op |-> "quarterly_revenue", arg |-> 0, result |-> r.ret]
  /\ UNCHANGED <<file, sortTie, pc, reads, error, df>>

HighDemandProducts ==
  /\ pc = "cleaned"
  /\ \E n \in TopNArgs :
       LET r == high_demand_products(cleaned_df, n, sortTie)
       IN  /\ cleaned_df' = r.df
           /\ last' = [op |-> "high_demand_products", arg |-> n, result |-> r.ret]
  /\ UNCHANGED <<file, sortTie, pc, reads, error, df>>

PurchasePatterns ==
  /\ pc = "cleaned"
  /\ LET r == purchase_patterns(cleaned_df)
     IN  /\ cleaned_df' = r.df
         /\ last' = [op |-> "purchase_patterns", arg |-> 0, result |-> r.ret]
  /\ UNCHANGED <<file, sortTie, pc, reads, error, df>>

Next ==
  \/ ImportOk
  \/ ImportReadFails
  \/ ImportUnsupported
  \/ FilterData
  \/ Refilter
  \/ LoyaltyCustomers
  \/ QuarterlyRevenue
  \/ HighDemandProducts
  \/ PurchasePatterns

Spec == Init /\ [][Next]_vars

InitLoyalty == InitWith(LoyaltyRows, MaxRows)

SpecLoyalty == InitLoyalty /\ [][Next]_vars

InitRevenue == InitWith(RevenueRows, MaxRows)

SpecRevenue == InitRevenue /\ [][Next]_vars

InitDemand == InitWith(DemandRows, MaxRows)

SpecDemand == InitDemand /\ [][Next]_vars

InitPatterns == InitWith(PatternRows, MaxRows)

SpecPatterns == InitPatterns /\ [][Next]_vars

InitMixed == InitWith(MixedRows, MaxMixedRows)

SpecMixed == InitMixed /\ [][Next]_vars

(* ------------------------------ properties ----------------------------- *)
BaseOf(r) == [c \in Range(BaseColumns) |-> r[c]]

Cleaned == cleaned_df.rows

Result == last.result.rows

\* the i-th smallest element of a set of integers
NthOf(S, j) == CHOOSE i \in S : Cardinality({k \in S : k <= i}) = j

RowsWith(col, v) == { i \in 1..Len(Cleaned) : Cleaned[i][col] = v }

RECURSIVE SumOver(_, _)
SumOver(S, f) ==
  IF S = {} THEN 0
  ELSE LET i == CHOOSE x \in S : TRUE IN f[i] + SumOver(S \ {i}, f)

QtyAt == [i \in 1..Len(Cleaned) |-> Cleaned[i].Quantity]

PriceAt == [i \in 1..Len(Cleaned) |-> Cleaned[i].UnitPrice]

RevenueAt == [i \in 1..Len(Cleaned) |-> Cleaned[i].Quantity * Cleaned[i].UnitPrice]

FirstSeen(d) == NthOf(RowsWith("Description", d), 1)

\* C1: filter_data returns exactly the rows of its input that have a
\* CustomerID and Quantity > 0 and UnitPrice > 0, in their input order.
C1_Kept == { i \in 1..Len(file) :
               file[i].CustomerID # NaN /\ file[i].Quantity > 0 /\ file[i].UnitPrice > 0 }

C1_FilterExact ==
  pc = "cleaned" =>
    /\ Len(Cleaned) = Cardinality(C1_Kept)
    /\ \A j \in 1..Len(Cleaned) : BaseOf(Cleaned[j]) = file[NthOf(C1_Kept, j)]

C1_Witness ==
  /\ pc = "cleaned"
  /\ Len(file) = 3
  /\ C1_Kept = {1, 3}
  /\ file[1] # file[3]
  /\ file[2].CustomerID # NaN /\ file[2].Quantity = 0 /\ file[2].UnitPrice > 0
  /\ Len(Cleaned) = 2

\* C2: no aggregator call changes the cleaned table: its columns, rows and
\* values after the call are those before it.
C2_CleanedUnchanged == [][pc = "cleaned" => cleaned_df' = cleaned_df]_vars

\* C3: products of equal total quantity are returned by high_demand_products
\* in the order of their first appearance in the cleaned table, and of a tie
\* across the top_n cut-off the earlier-appearing product is the one returned.
C3_TiesByFirstAppearance ==
  (last.op = "high_demand_products" /\ last.arg >= 0) =>
    /\ \A i, j \in 1..Len(Result) :
         (i < j /\ Result[i].Total_Quantity_Sold = Result[j].Total_Quantity_Sold)
           => FirstSeen(Result[i].Description) < FirstSeen(Result[j].Description)
    /\ \A i \in 1..Len(Result) :
         \A d \in KeySet(cleaned_df, "Description") \ { Result[k].Description : k \in 1..Len(Result) } :
           SumOver(RowsWith("Description", d), QtyAt) = Result[i].Total_Quantity_Sold
             => FirstSeen(Result[i].Description) < FirstSeen(d)

\* C4: for top_n >= 0 high_demand_products returns min(top_n, D) rows for D
\* distinct products, each with the sum of its product's quantities, the
\* quantities non-increasing, and no omitted product larger than a returned one.
C4_Products == { Cleaned[i].Description : i \in 1..Len(Cleaned) }

C4_TopN ==
  (last.op = "high_demand_products" /\ last.arg >= 0) =>
    LET D == Cardinality(C4_Products)
        returned == { Result[k].Description : k \in 1..Len(Result) }
    IN  /\ Len(Result) = (IF last.arg < D THEN last.arg ELSE D)
        /\ returned \subseteq C4_Products
        /\ Cardinality(returned) = Len(Result)
        /\ \A i \in 1..Len(Result) :
             Result[i].Total_Quantity_Sold
               = SumOver(RowsWith("Description", Result[i].Description), QtyAt)
        /\ \A i, j \in 1..Len(Result) :
             i < j => Result[i].Total_Quantity_Sold >= Result[j].Total_Quantity_Sold
        /\ \A i \in 1..Len(Result) : \A d \in C4_Products \ returned :
             SumOver(RowsWith("Description", d), QtyAt) <= Result[i].Total_Quantity_Sold

C4_Witness ==
  /\ last.op = "high_demand_products"
  /\ last.arg = 1
  /\ Cardinality(C4_Products) = 2
  /\ Len(Cleaned) = 3
  /\ Len(Result) = 1
  /\ Result[1].Total_Quantity_Sold = 3
  /\ FirstSeen(Result[1].Description) > 1

\* C5: loyalty_customers returns one row, with the exact row count, for each
\* customer with at least min_purchases cleaned rows and for no other; so
\* every distinct customer for min_purchases <= 0, and nothing for an empty table.
C5_Customers == { Cleaned[i].CustomerID : i \in 1..Len(Cleaned) }

C5_Loyalty ==
  last.op = "loyalty_customers" =>
    LET loyal == { c \in C5_Customers : Cardinality(RowsWith("CustomerID", c)) >= last.arg }
    IN  /\ { Result[k].CustomerID : k \in 1..Len(Result) } = loyal
        /\ Len(Result) = Cardinality(loyal)
        /\ \A k \in 1..Len(Result) :
             Result[k].Purchase_Count = Cardinality(RowsWith("CustomerID", Result[k].CustomerID))
        /\ last.arg <= 0 => Len(Result) = Cardinality(C5_Customers)
        /\ Cleaned = <<>> => Result = <<>>

C5_Witness ==
  /\ last.op = "loyalty_customers"
  /\ last.arg = 2
  /\ Cardinality(C5_Customers) = 2
  /\ Len(Result) = 1
  /\ Result[1].Purchase_Count = 2

\* C6: quarterly_revenue returns one row per (year, ceil(month/3)) quarter of
\* the data, ascending by quarter, each with the sum of Quantity x UnitPrice of
\* the quarter's rows; the revenues add up to the table's total.
C6_QuarterOf(i) ==
  [year |-> Cleaned[i].InvoiceDate.year, quarter |-> (Cleaned[i].InvoiceDate.month + 2) \div 3]

C6_Quarters == { C6_QuarterOf(i) : i \in 1..Len(Cleaned) }

C6_Earlier(a, b) == a.year < b.year \/ (a.year = b.year /\ a.quarter < b.quarter)

C6_ResultRevenue == [k \in 1..Len(Result) |-> Result[k].Total_Revenue]

C6_Revenue ==
  last.op = "quarterly_revenue" =>
    /\ { Result[k].Quarter : k \in 1..Len(Result) } = C6_Quarters
    /\ \A i, j \in 1..Len(Result) : i < j => C6_Earlier(Result[i].Quarter, Result[j].Quarter)
    /\ \A k \in 1..Len(Result) :
         Result[k].Total_Revenue
           = SumOver({ i \in 1..Len(Cleaned) : C6_QuarterOf(i) = Result[k].Quarter }, RevenueAt)
    /\ SumOver(1..Len(Result), C6_ResultRevenue) = SumOver(1..Len(Cleaned), RevenueAt)

C6_Witness ==
  /\ last.op = "quarterly_revenue"
  /\ Len(Cleaned) = 3
  /\ Cleaned[1].InvoiceDate = Date(2011, 3)
  /\ Cleaned[2].InvoiceDate = Date(2010, 12)
  /\ Cleaned[3].InvoiceDate = Date(2011, 1)
  /\ Cleaned[1].Quantity # Cleaned[3].Quantity
  /\ Len(Result) = 2
  /\ Result[2].Total_Revenue = 12

\* C7 as stated: purchase_patterns returns one row per distinct product with
\* the means of its Quantity and UnitPrice, the rows in the order of the
\* products' first appearance in the cleaned table.
C7_Means ==
  /\ { Result[k].Description : k \in 1..Len(Result) } = KeySet(cleaned_df, "Description")
  /\ Len(Result) = Cardinality(KeySet(cleaned_df, "Description"))
  /\ \A k \in 1..Len(Result) :
       LET g == RowsWith("Description", Result[k].Description)
           n == Cardinality(g)
           aq == Result[k].avg_quantity
           ap == Result[k].avg_unit_price
       IN  /\ aq.den > 0 /\ aq.num * n = aq.den * SumOver(g, QtyAt)
           /\ ap.den > 0 /\ ap.num * n = ap.den * SumOver(g, PriceAt)
           /\ n = 1 => /\ aq = [num |-> Cleaned[NthOf(g, 1)].Quantity, den |-> 1]
                       /\ ap = [num |-> Cleaned[NthOf(g, 1)].UnitPrice, den |-> 1]

C8_UnsupportedDistinct ==
  (pc = "failed" /\ error.file.ext \notin {".xlsx", ".csv"}) =>
    /\ reads = 0
    /\ \A f \in FileNames, cause \in ReadErrors :
         f.ext \in {".xlsx", ".csv"} => error.type # LoadError(f, cause).type

\* C9: filter_data applied to its own result returns that result, and a call
\* leaves the table it was given with the rows and columns it had.
C9_Idempotent ==
  /\ pc = "cleaned" => df = DataFrame(BaseColumns, file)
  /\ last.op = "filter_data" => last.result = cleaned_df

C9_Witness ==
  /\ last.op = "filter_data"
  /\ Len(file) = 3
  /\ Len(Cleaned) = 2
  /\ Cleaned[1] # Cleaned[2]
  /\ file[1].CustomerID = NaN
  /\ Len(df.rows) = 3

\* C10: whatever calls came before on the same cleaned table, each aggregator
\* returns what it returns as the first call on a freshly cleaned table.
C10_Fresh == filter_data(DataFrame(BaseColumns, file)).ret

C10_HistoryIndependent ==
  /\ last.op = "loyalty_customers" => last.result = loyalty_customers(C10_Fresh, last.arg).ret
  /\ last.op = "quarterly_revenue" => last.result = quarterly_revenue(C10_Fresh).ret
  /\ last.op = "high_demand_products"
       => last.result = high_demand_products(C10_Fresh, last.arg, sortTie).ret
  /\ last.op = "purchase_patterns" => last.result = purchase_patterns(C10_Fresh).ret

C10_Witness ==
  /\ last.op \in {"loyalty_customers", "high_demand_products", "purchase_patterns"}
  /\ "Total" \in Range(cleaned_df.columns)
  /\ "Quarter" \in Range(cleaned_df.columns)
  /\ Len(Cleaned) = 2
  /\ Len(Result) = 2
====
